---- MODULE Spec2Model ----
(***************************************************************************)
(* MorphPost workflow engine: one workflow fanned out into one platform    *)
(* subgraph per requested platform (generate -> evaluate -> route ->       *)
(* regenerate | human review), the review (resume) decisions, and the      *)
(* draft / evaluation / checkpoint records the steps write.                *)
(*                                                                         *)
(* The node functions are translated from the LangGraph guide of the       *)
(* repository (generate_draft, evaluate_draft, route_after_evaluation,     *)
(* regenerate_draft, await_human_review).  The review endpoints, the       *)
(* persistence helpers and the status aggregation are backend code the     *)
(* repository documents but does not ship; they follow the written         *)
(* specification of the engine.  A failing generator or evaluator call is  *)
(* retried on the state the node was called with; once the retries run    *)
(* out the platform is marked failed and the others continue.              *)
(*                                                                         *)
(* Publish and cancel requests are explored in a specification of their    *)
(* own, and so are the two pages of the frontend that drive the engine:    *)
(* the StyleSetup wizard and the ReviewWorkspace.                          *)
(***************************************************************************)
EXTENDS Integers, Sequences, FiniteSets, TLC

(* ------------------------------ bounds --------------------------------- *)
\* largest configured max_iterations explored (the shipped default is 3)
MaxIterCfg == 3
\* the failing score explored lies ScoreSpread below the threshold
ScoreSpread == 1
\* review decisions the humans of one workflow get applied, all platforms together
MaxResumes == 2
\* route_after_evaluation alone is explored on 0 .. RouteRange per argument
RouteRange == 4
\* retries a failing node gets before its platform is marked failed
MaxRetries == 2
\* sources a user uploads on the StyleSetup page
MaxSources == 2
\* review requests of one platform the ReviewWorkspace has in flight
MaxPending == 2

(* ------------------------- program constants --------------------------- *)
\* evaluation_score_threshold
Threshold == 70
\* questions.length of the StyleSetup questionnaire
NumQuestions == 11

Platforms == {"linkedin", "x"}
\* the evaluator's scores matter through score >= threshold alone: one failing
\* score and the tie are explored
Scores == {Threshold - ScoreSpread, Threshold}
Contents == {"edited"}
Feedbacks == {"none", "too technical"}

\* a null draft reference (current_draft = None, based_on_id NULL)
NoDraft == 0
NoEvaluation == [score |-> -1, feedback |-> "none"]
NoCall == [op |-> "none", platform |-> "none", decision |-> "none", result |-> "none"]
\* no generator call in flight / no reject waiting for its Generate
NoGeneration == "no generation"
NoReject == "no reject"

Max(a, b) == IF a >= b THEN a ELSE b
Min(a, b) == IF a <= b THEN a ELSE b

VARIABLES
    platforms,        \* platforms of the started workflow ({} before start)
    max_iterations,   \* WorkflowGraphState.max_iterations
    node,             \* per platform: the subgraph node that runs next
    state,            \* per platform: PlatformGraphState
    status,           \* per platform: PlatformState.status column
    drafts,           \* per platform: Draft rows, in creation order
    evaluations,      \* per platform: Evaluation rows, in creation order
    checkpoint,       \* per platform: latest checkpoint
    response,         \* what the API call made in the last step returned
    generate_calls,   \* per platform: generator invocations so far
    pauses,           \* per platform: runs of await_human_review so far
    resumes,          \* per platform: review decisions applied so far
    route_in,         \* arguments of the last route decision
    route_out,        \* node the last route decision led to
    attempts,         \* per platform: failed attempts of the node that runs next
    generation,       \* per platform: previous_feedback of the generator call
                      \* whose draft awaits evaluation
    rejected_with,    \* per platform: feedback of a reject no Generate has served yet
    currentStep,      \* StyleSetup: step of the wizard shown
    isAnalyzing,      \* StyleSetup: the Analyze button is disabled
    analysisComplete, \* StyleSetup: a style profile has been analysed
    questionIndex,    \* StyleSetup: question shown on the Questions step
    sources,          \* StyleSetup: status of each uploaded source
    analyze,          \* StyleSetup: the handleAnalyze call awaiting its request
    workflow,         \* ReviewWorkspace: platform statuses of the fetched workflow
    submittingAction, \* ReviewWorkspace: platform whose buttons are disabled
    pending,          \* ReviewWorkspace: per platform, review requests in flight
    scheduleModalOpen,\* ReviewWorkspace: the schedule dialog is open
    selectedPlatform  \* ReviewWorkspace: platform the schedule dialog is for

vars == <<platforms, max_iterations, node, state, status, drafts,
          evaluations, checkpoint, response, generate_calls, pauses, resumes,
          route_in, route_out, attempts, generation, rejected_with,
          currentStep, isAnalyzing, analysisComplete, questionIndex, sources,
          analyze, workflow, submittingAction, pending, scheduleModalOpen,
          selectedPlatform>>

\* the state of the workflow engine
engine_vars == <<platforms, max_iterations, node, state, status, drafts,
                 evaluations, checkpoint, response, generate_calls, pauses,
                 resumes, route_in, route_out, attempts, generation,
                 rejected_with>>

\* the state of the StyleSetup page
wizard_vars == <<currentStep, isAnalyzing, analysisComplete, questionIndex,
                 sources, analyze>>

\* the state of the ReviewWorkspace page
workspace_vars == <<workflow, submittingAction, pending, scheduleModalOpen,
                    selectedPlatform>>

\* the pages of the frontend
page_vars == <<wizard_vars, workspace_vars>>

\* no handleAnalyze call is awaiting its request
NoAnalyze == [pc |-> "idle", currentStep |-> 0]
\* the workflow has not been fetched yet (workflow = null)
NoWorkflow == [p \in Platforms |-> "null"]
\* submittingAction = null, selectedPlatform = null
Null == "null"

\* the pages as they are mounted
InitPages ==
    /\ currentStep = 0
    /\ isAnalyzing = FALSE
    /\ analysisComplete = FALSE
    /\ questionIndex = 0
    /\ sources = <<>>
    /\ analyze = NoAnalyze
    /\ workflow = NoWorkflow
    /\ submittingAction = Null
    /\ pending = [p \in Platforms |-> <<>>]
    /\ scheduleModalOpen = FALSE
    /\ selectedPlatform = Null

(* --------------------------- platform state ---------------------------- *)
\* PlatformGraphState as the fanout node hands it to a subgraph
InitialPlatformState ==
    [current_draft |-> NoDraft,
     previous_drafts |-> <<>>,
     last_evaluation |-> NoEvaluation,
     iteration |-> 0,
     awaiting_human |-> FALSE,
     accepted |-> FALSE,
     rejected |-> FALSE]

\* the checkpoint of a platform: its full state at a transition boundary
Snapshot(st, stat, nxt, ver) ==
    [version |-> ver, state |-> st, status |-> stat, next |-> nxt]

NoCheckpoint == Snapshot(InitialPlatformState, "none", "none", 0)

\* saveCheckpoint keyed by the workflow alone: one write replaces the
\* checkpoint of every platform
SaveCheckpoint_SharedKey(p, st, stat, nxt) ==
    [q \in DOMAIN checkpoint |-> Snapshot(st, stat, nxt, checkpoint[q].version + 1)]

\* saveCheckpoint: the latest checkpoint per key is overwritten in place
SaveCheckpoint(p, st, stat, nxt) ==
    [checkpoint EXCEPT ![p] = Snapshot(st, stat, nxt, checkpoint[p].version + 1)]

(* ------------------------------- routing ------------------------------- *)
\* route_after_evaluation with the tie score = threshold treated as a fail
route_after_evaluation_Strict(score, thr, iteration, max_iter) ==
    IF score > thr THEN "accept"
    ELSE IF iteration < max_iter THEN "regenerate"
    ELSE "reject"

\* route_after_evaluation allowing one regeneration too many
route_after_evaluation_OffByOne(score, thr, iteration, max_iter) ==
    IF score >= thr THEN "accept"
    ELSE IF iteration <= max_iter THEN "regenerate"
    ELSE "reject"

\* route_after_evaluation
route_after_evaluation(score, thr, iteration, max_iter) ==
    IF score >= thr THEN "accept"
    ELSE IF iteration < max_iter THEN "regenerate"
    ELSE "reject"

\* Routing Outcomes: the node each routing label leads to
RoutingOutcome(label) ==
    CASE label = "accept" -> "hitl"
      [] label = "regenerate" -> "regenerate"
      [] label = "reject" -> "hitl"

(* ------------------------------ the nodes ------------------------------ *)
\* every new draft based on the first draft of the platform
PriorDraft_First(st) ==
    IF Len(st.previous_drafts) > 0 THEN st.previous_drafts[1] ELSE st.current_draft

\* the draft a new draft supersedes: the active one, else the one archived last
PriorDraft(st) ==
    IF st.current_draft # NoDraft THEN st.current_draft
    ELSE IF Len(st.previous_drafts) > 0
         THEN st.previous_drafts[Len(st.previous_drafts)]
         ELSE NoDraft

\* persist_draft: one new Draft row; rows are never updated or deleted
persist_draft(rows, st, source, content) ==
    Append(rows, [id |-> Len(rows) + 1,
                  source |-> source,
                  content |-> content,
                  based_on_id |-> PriorDraft(st)])

\* persist_evaluation: one new Evaluation row for the evaluated draft
persist_evaluation(rows, draft_id, score, iteration) ==
    Append(rows, [draft_id |-> draft_id, score |-> score, iteration |-> iteration])

\* generate_draft that forgets to store the new draft in the state
generate_draft_NoPointer(st, draft_id) ==
    [st EXCEPT !.iteration = @ + 1]

\* generate_draft: state update once the generator has returned
generate_draft(st, draft_id) ==
    [st EXCEPT !.current_draft = draft_id, !.iteration = @ + 1]

\* evaluate_draft: state update once the evaluator has returned
evaluate_draft(st, evaluation) ==
    [st EXCEPT !.last_evaluation = evaluation]

\* regenerate_draft that archives the draft but keeps it current
regenerate_draft_KeepPointer(st) ==
    [st EXCEPT !.previous_drafts =
                   IF st.current_draft # NoDraft THEN Append(@, st.current_draft) ELSE @]

\* regenerate_draft: archive the current draft, clear the pointer
regenerate_draft(st) ==
    [st EXCEPT !.previous_drafts =
                   IF st.current_draft # NoDraft THEN Append(@, st.current_draft) ELSE @,
               !.current_draft = NoDraft]

\* await_human_review that returns without setting the suspend flag
await_human_review_NoFlag(st) == st

\* await_human_review that marks the draft accepted on its own
await_human_review_AutoAccept(st) ==
    [st EXCEPT !.awaiting_human = TRUE, !.accepted = TRUE]

\* await_human_review: set the suspend flag
await_human_review(st) ==
    [st EXCEPT !.awaiting_human = TRUE]

\* a generator call that never gets the previous feedback
previous_feedback_Dropped(st) == "none"

\* the previous_feedback argument generate_draft passes to the generator
previous_feedback(st) ==
    IF st.last_evaluation # NoEvaluation THEN st.last_evaluation.feedback ELSE "none"

\* Generate node of platform p, the generator returning a draft
Generate(p) ==
    LET id == Len(drafts[p]) + 1
        st == generate_draft(state[p], id)
    IN  /\ node[p] = "generate"
        /\ generation' = [generation EXCEPT ![p] = previous_feedback(state[p])]
        /\ attempts' = [attempts EXCEPT ![p] = 0]
        /\ rejected_with' = [rejected_with EXCEPT ![p] = NoReject]
        /\ drafts' = [drafts EXCEPT ![p] = persist_draft(@, state[p], "ai", "gen")]
        /\ state' = [state EXCEPT ![p] = st]
        /\ status' = [status EXCEPT ![p] = "evaluating"]
        /\ node' = [node EXCEPT ![p] = "evaluate"]
        /\ checkpoint' = SaveCheckpoint(p, st, "evaluating", "evaluate")
        /\ generate_calls' = [generate_calls EXCEPT ![p] = @ + 1]
        /\ response' = NoCall
        /\ UNCHANGED <<page_vars, platforms, max_iterations, evaluations, pauses, resumes,
                       route_in, route_out>>

\* Evaluate node of platform p, the evaluator returning `score`; the
\* conditional edge route_after_evaluation picks the next node
Evaluate(p, score) ==
    LET st == evaluate_draft(state[p], [score |-> score, feedback |-> "auto"])
        nxt == RoutingOutcome(route_after_evaluation(
                   st.last_evaluation.score, Threshold, st.iteration, max_iterations))
    IN  /\ node[p] = "evaluate"
        /\ generation' = [generation EXCEPT ![p] = NoGeneration]
        /\ attempts' = [attempts EXCEPT ![p] = 0]
        /\ evaluations' = [evaluations EXCEPT ![p] =
               persist_evaluation(@, state[p].current_draft, score, state[p].iteration)]
        /\ state' = [state EXCEPT ![p] = st]
        /\ node' = [node EXCEPT ![p] = nxt]
        /\ checkpoint' = SaveCheckpoint(p, st, status[p], nxt)
        /\ response' = NoCall
        /\ UNCHANGED <<page_vars, platforms, max_iterations, status, drafts, generate_calls,
                       pauses, resumes, route_in, route_out, rejected_with>>

\* Regenerate node of platform p
Regenerate(p) ==
    LET st == regenerate_draft(state[p])
    IN  /\ node[p] = "regenerate"
        /\ state' = [state EXCEPT ![p] = st]
        /\ status' = [status EXCEPT ![p] = "generating"]
        /\ node' = [node EXCEPT ![p] = "generate"]
        /\ checkpoint' = SaveCheckpoint(p, st, "generating", "generate")
        /\ response' = NoCall
        /\ UNCHANGED <<page_vars, platforms, max_iterations, drafts, evaluations,
                       generate_calls, pauses, resumes, route_in, route_out,
                       attempts, generation, rejected_with>>

\* a HITL node that marks its platform for review and lets the loop run on
AwaitHumanReview_Continues(p) ==
    LET st == await_human_review(state[p])
    IN  /\ node[p] = "hitl"
        /\ state' = [state EXCEPT ![p] = st]
        /\ status' = [status EXCEPT ![p] = "awaiting_review"]
        /\ node' = [node EXCEPT ![p] = "regenerate"]
        /\ checkpoint' = SaveCheckpoint(p, st, "awaiting_review", "regenerate")
        /\ pauses' = [pauses EXCEPT ![p] = @ + 1]
        /\ response' = NoCall
        /\ UNCHANGED <<page_vars, platforms, max_iterations, drafts, evaluations,
                       generate_calls, resumes, route_in, route_out,
                       attempts, generation, rejected_with>>

\* a HITL node behind a barrier: it pauses its platform once every sibling
\* has left its generate / evaluate loop
AwaitHumanReview_Barrier(p) ==
    LET st == await_human_review(state[p])
    IN  /\ node[p] = "hitl"
        /\ \A q \in platforms : node[q] \in {"hitl", "end"}
        /\ state' = [state EXCEPT ![p] = st]
        /\ status' = [status EXCEPT ![p] = "awaiting_review"]
        /\ node' = [node EXCEPT ![p] = "end"]
        /\ checkpoint' = SaveCheckpoint(p, st, "awaiting_review", "end")
        /\ pauses' = [pauses EXCEPT ![p] = @ + 1]
        /\ response' = NoCall
        /\ UNCHANGED <<page_vars, platforms, max_iterations, drafts, evaluations,
                       generate_calls, resumes, route_in, route_out,
                       attempts, generation, rejected_with>>

\* HITL node of platform p: pause, then END
AwaitHumanReview(p) ==
    LET st == await_human_review(state[p])
    IN  /\ node[p] = "hitl"
        /\ state' = [state EXCEPT ![p] = st]
        /\ status' = [status EXCEPT ![p] = "awaiting_review"]
        /\ node' = [node EXCEPT ![p] = "end"]
        /\ checkpoint' = SaveCheckpoint(p, st, "awaiting_review", "end")
        /\ pauses' = [pauses EXCEPT ![p] = @ + 1]
        /\ response' = NoCall
        /\ UNCHANGED <<page_vars, platforms, max_iterations, drafts, evaluations,
                       generate_calls, resumes, route_in, route_out,
                       attempts, generation, rejected_with>>

(* --------------------------- failing steps ----------------------------- *)
\* a step failure that outlived its retries taking the whole workflow down
FailedPlatforms_All(p) == platforms

\* the platforms a step failure that outlived its retries marks failed
FailedPlatforms(p) == {p}

\* a failed attempt that counts as an iteration
FailedAttempt_CountsIteration(st) == [st EXCEPT !.iteration = @ + 1]

\* the platform state after a failed attempt of a node: the node returned
\* nothing, the state is the one it was called with
FailedAttempt(st) == st

\* failing attempts are explored in the automatic phase of a workflow, before
\* the first review decision is applied
FailuresExplored == \A q \in Platforms : resumes[q] = 0

\* the generator or the evaluator of platform p fails and the node is retried
TransientStepFailure(p) ==
    /\ node[p] \in {"generate", "evaluate"}
    /\ FailuresExplored
    /\ attempts[p] < MaxRetries
    /\ attempts' = [attempts EXCEPT ![p] = @ + 1]
    /\ state' = [state EXCEPT ![p] = FailedAttempt(@)]
    /\ response' = NoCall
    /\ UNCHANGED <<page_vars, platforms, max_iterations, node, status, drafts, evaluations,
                   checkpoint, generate_calls, pauses, resumes, route_in, route_out,
                   generation, rejected_with>>

\* the node of platform p fails once more after its last retry: the platform
\* is marked failed, the others continue
ExhaustedStepFailure(p) ==
    LET failed == FailedPlatforms(p)
    IN  /\ node[p] \in {"generate", "evaluate"}
        /\ FailuresExplored
        /\ attempts[p] = MaxRetries
        /\ status' = [q \in Platforms |-> IF q \in failed THEN "error" ELSE status[q]]
        /\ node' = [q \in Platforms |-> IF q \in failed THEN "end" ELSE node[q]]
        /\ checkpoint' = [q \in Platforms |->
               IF q \in failed
               THEN Snapshot(state[q], "error", "end", checkpoint[q].version + 1)
               ELSE checkpoint[q]]
        /\ attempts' = [q \in Platforms |-> IF q \in failed THEN 0 ELSE attempts[q]]
        /\ generation' = [q \in Platforms |->
               IF q \in failed THEN NoGeneration ELSE generation[q]]
        /\ response' = NoCall
        /\ UNCHANGED <<page_vars, platforms, max_iterations, state, drafts, evaluations,
                       generate_calls, pauses, resumes, route_in, route_out,
                       rejected_with>>

(* -------------------------------- start -------------------------------- *)
\* a validation that looks at the platforms alone
ValidSpec_PlatformsOnly(selected, has_source) == selected # {}

\* the validation of a workflow spec: at least one platform, and the content
\* (manual mode) or the goal (template mode) not blank
ValidSpec(selected, has_source) == selected # {} /\ has_source

\* start(workflowSpec): validate, persist one Platform State per requested
\* platform, launch one subgraph per platform
Start(selected, has_source) ==
    /\ platforms = {}
    /\ IF ~ValidSpec(selected, has_source)
       THEN /\ response' = [op |-> "start", platform |-> "none",
                            decision |-> "none", result |-> "InvalidSpec"]
            /\ UNCHANGED <<page_vars, platforms, max_iterations, node, state, status, drafts,
                           evaluations, checkpoint, generate_calls, pauses, resumes,
                           route_in, route_out,
                           attempts, generation, rejected_with>>
       ELSE /\ platforms' = selected
            /\ node' = [p \in Platforms |-> IF p \in selected THEN "generate" ELSE "none"]
            /\ status' = [p \in Platforms |-> IF p \in selected THEN "generating" ELSE "none"]
            /\ checkpoint' = [p \in Platforms |->
                   IF p \in selected
                   THEN Snapshot(InitialPlatformState, "generating", "generate", 1)
                   ELSE checkpoint[p]]
            /\ response' = [op |-> "start", platform |-> "none",
                            decision |-> "none", result |-> "ok"]
            /\ UNCHANGED <<page_vars, max_iterations, state, drafts, evaluations,
                           generate_calls, pauses, resumes, route_in, route_out,
                           attempts, generation, rejected_with>>

Init ==
    /\ platforms = {}
    /\ max_iterations \in 0..MaxIterCfg
    /\ node = [p \in Platforms |-> "none"]
    /\ state = [p \in Platforms |-> InitialPlatformState]
    /\ status = [p \in Platforms |-> "none"]
    /\ drafts = [p \in Platforms |-> <<>>]
    /\ evaluations = [p \in Platforms |-> <<>>]
    /\ checkpoint = [p \in Platforms |-> NoCheckpoint]
    /\ response = NoCall
    /\ generate_calls = [p \in Platforms |-> 0]
    /\ pauses = [p \in Platforms |-> 0]
    /\ resumes = [p \in Platforms |-> 0]
    /\ route_in = <<0, 0, 0, 0>>
    /\ route_out = "none"
    /\ attempts = [p \in Platforms |-> 0]
    /\ generation = [p \in Platforms |-> NoGeneration]
    /\ rejected_with = [p \in Platforms |-> NoReject]
    /\ InitPages

(* ------------------------------- resume -------------------------------- *)
Decisions ==
    {[kind |-> "accept", arg |-> "none"]}
    \cup {[kind |-> "reject", arg |-> f] : f \in Feedbacks}
    \cup {[kind |-> "edit", arg |-> c] : c \in Contents}
    \cup {[kind |-> "editAndAccept", arg |-> c] : c \in Contents}

\* the response of an applied decision names the platform and the decision;
\* an error response carries only its detail
ResumeResponse(p, d, result) ==
    IF result = "ok"
    THEN [op |-> "resume", platform |-> p, decision |-> d.kind, result |-> result]
    ELSE [op |-> "resume", platform |-> "none", decision |-> "none", result |-> result]

\* a resume call that is never refused
Reviewable_Always(ck) == TRUE

\* the validation of a resume call against the loaded checkpoint
Reviewable(ck) == ck.state.awaiting_human

\* accept that drops the active draft reference
ApplyAccept_ClearsDraft(st) ==
    [st EXCEPT !.accepted = TRUE, !.awaiting_human = FALSE, !.current_draft = NoDraft]

\* accept: the platform is accepted, its active draft stays as it is
ApplyAccept(st) ==
    [st EXCEPT !.accepted = TRUE, !.awaiting_human = FALSE]

\* reject(feedback): as regenerate_draft, the human feedback replacing the
\* automatic one when it is supplied
ApplyReject(st, feedback) ==
    [regenerate_draft(st) EXCEPT
        !.awaiting_human = FALSE,
        !.last_evaluation.feedback = IF feedback = "none" THEN @ ELSE feedback]

\* edit(content) that stores the human draft but leaves the old one active
ApplyEdit_KeepActive(st, draft_id) ==
    [st EXCEPT !.previous_drafts = Append(@, st.current_draft)]

\* edit(content): the new human draft supersedes the active one
ApplyEdit(st, draft_id) ==
    [st EXCEPT !.previous_drafts = Append(@, st.current_draft),
               !.current_draft = draft_id]

\* editAndAccept applied in two writes, the status still to follow
StatusAfter_EditFirst(kind) ==
    CASE kind = "accept" -> "accepted"
      [] kind = "reject" -> "generating"
      [] kind = "edit" -> "awaiting_review"
      [] kind = "editAndAccept" -> "awaiting_review"

\* the platform status a decision leaves behind
StatusAfter(kind) ==
    CASE kind = "accept" -> "accepted"
      [] kind = "reject" -> "generating"
      [] kind = "edit" -> "awaiting_review"
      [] kind = "editAndAccept" -> "accepted"

\* the node that runs next after a decision
NodeAfter(kind) == IF kind = "reject" THEN "generate" ELSE "end"

\* the state a valid decision d produces from st
ApplyDecision(st, d, draft_id) ==
    CASE d.kind = "accept" -> ApplyAccept(st)
      [] d.kind = "reject" -> ApplyReject(st, d.arg)
      [] d.kind = "edit" -> ApplyEdit(st, draft_id)
      [] d.kind = "editAndAccept" -> ApplyAccept(ApplyEdit(st, draft_id))

RECURSIVE Sum(_, _)
Sum(f, S) == IF S = {} THEN 0
             ELSE LET x == CHOOSE y \in S : TRUE IN f[x] + Sum(f, S \ {x})

\* the reviewers of the workflow still have a decision to give; review calls
\* are explored while they have
WithinBudget == Sum(resumes, Platforms) < MaxResumes

\* resume(workflowId, platform, decision): load the latest checkpoint,
\* validate, apply one transition, write the new checkpoint - in one step
Resume(p, d) ==
    LET ck == checkpoint[p]
        id == Len(drafts[p]) + 1
        st == ApplyDecision(ck.state, d, id)
    IN  /\ p \in platforms
        /\ WithinBudget
        /\ IF ~Reviewable(ck)
           THEN /\ response' = ResumeResponse(p, d, "InvalidResume")
                /\ UNCHANGED <<page_vars, platforms, max_iterations, node, state, status,
                               drafts, evaluations, checkpoint, generate_calls,
                               pauses, resumes, route_in, route_out,
                               attempts, generation, rejected_with>>
           ELSE /\ state' = [state EXCEPT ![p] = st]
                /\ status' = [status EXCEPT ![p] = StatusAfter(d.kind)]
                /\ node' = [node EXCEPT ![p] = NodeAfter(d.kind)]
                /\ drafts' = [drafts EXCEPT ![p] =
                       IF d.kind \in {"edit", "editAndAccept"}
                       THEN persist_draft(@, ck.state, "human", d.arg)
                       ELSE @]
                /\ checkpoint' = SaveCheckpoint(p, st, StatusAfter(d.kind), NodeAfter(d.kind))
                /\ resumes' = [resumes EXCEPT ![p] = @ + 1]
                /\ pauses' = [pauses EXCEPT ![p] = IF d.kind = "edit" THEN @ + 1 ELSE @]
                /\ rejected_with' = [rejected_with EXCEPT ![p] =
                       IF d.kind = "reject" THEN d.arg ELSE @]
                /\ response' = ResumeResponse(p, d, "ok")
                /\ UNCHANGED <<page_vars, platforms, max_iterations, evaluations,
                               generate_calls, route_in, route_out,
                               attempts, generation>>

(* ------------------------------- publish ------------------------------- *)
\* a review workspace that offers Publish for every platform with a draft
PublishOffered_AnyDraft(p) == state[p].current_draft # NoDraft

\* the review workspace lets the user send a publish request for p: its
\* Publish button shows while the workflow it last fetched has p accepted,
\* and its schedule dialog opens for p once an accept of p has succeeded.
\* The fetched workflow may be stale: p was accepted when it was fetched and
\* may have been published since.
PublishOffered(p) == status[p] \in {"accepted", "published"}

\* POST /publish/schedule for platform p: refused unless p is accepted and
\* not yet published
Publish(p) ==
    /\ p \in platforms
    /\ PublishOffered(p)
    /\ IF status[p] = "accepted"
       THEN /\ status' = [status EXCEPT ![p] = "published"]
            /\ checkpoint' = SaveCheckpoint(p, state[p], "published", "end")
            /\ response' = [op |-> "publish", platform |-> p,
                            decision |-> "none", result |-> "ok"]
       ELSE /\ response' = [op |-> "publish", platform |-> "none",
                            decision |-> "none", result |-> "NotAccepted"]
            /\ UNCHANGED <<status, checkpoint>>
    /\ UNCHANGED <<page_vars, platforms, max_iterations, node, state, drafts, evaluations,
                   generate_calls, pauses, resumes, route_in, route_out,
                   attempts, generation, rejected_with>>

(* ------------------------------- cancel -------------------------------- *)
\* the statuses a platform never leaves by itself
FinalStatuses == {"accepted", "published", "rejected", "error"}

\* the part of the workflow a cancel request works on
PlatformStates ==
    [node |-> node, state |-> state, status |-> status, checkpoint |-> checkpoint]

\* a cancel request that marks every platform of the workflow
CancelTargets_All(w) == platforms

\* the platforms a cancel request marks: the ones not yet terminal
CancelTargets(w) == {p \in platforms : w.status[p] \notin FinalStatuses}

\* a workflow after a cancel request: every non-terminal platform is marked
\* rejected and no longer awaits a human; a generator or evaluator call in
\* flight is left to complete, its result to be discarded
Cancelled(w) ==
    LET hit == CancelTargets(w)
        st(p) == [w.state[p] EXCEPT !.awaiting_human = FALSE, !.rejected = TRUE]
    IN  [node |-> [p \in Platforms |->
                     IF p \notin hit THEN w.node[p]
                     ELSE IF w.node[p] \in {"generate", "evaluate"} THEN "discard"
                     ELSE "end"],
         state |-> [p \in Platforms |-> IF p \in hit THEN st(p) ELSE w.state[p]],
         status |-> [p \in Platforms |-> IF p \in hit THEN "rejected" ELSE w.status[p]],
         checkpoint |-> [p \in Platforms |->
                     IF p \in hit
                     THEN Snapshot(st(p), "rejected", "end", w.checkpoint[p].version + 1)
                     ELSE w.checkpoint[p]]]

\* cancel(workflowId)
Cancel ==
    LET w == Cancelled(PlatformStates)
        hit == CancelTargets(PlatformStates)
    IN  /\ platforms # {}
        /\ WithinBudget
        /\ node' = w.node
        /\ state' = w.state
        /\ status' = w.status
        /\ checkpoint' = w.checkpoint
        /\ attempts' = [p \in Platforms |-> IF p \in hit THEN 0 ELSE attempts[p]]
        /\ generation' = [p \in Platforms |->
               IF p \in hit THEN NoGeneration ELSE generation[p]]
        /\ rejected_with' = [p \in Platforms |->
               IF p \in hit THEN NoReject ELSE rejected_with[p]]
        /\ response' = [op |-> "cancel", platform |-> "none",
                        decision |-> "none", result |-> "ok"]
        /\ UNCHANGED <<page_vars, platforms, max_iterations, drafts, evaluations,
                       generate_calls, pauses, resumes, route_in, route_out>>

\* the generator or evaluator call of a cancelled platform p completes: its
\* result is dropped
Discard(p) ==
    /\ node[p] = "discard"
    /\ node' = [node EXCEPT ![p] = "end"]
    /\ response' = NoCall
    /\ UNCHANGED <<page_vars, platforms, max_iterations, state, status, drafts, evaluations,
                   checkpoint, generate_calls, pauses, resumes, route_in, route_out,
                   attempts, generation, rejected_with>>

(* --------------------------- specification ----------------------------- *)
Next ==
    \/ \E sel \in SUBSET Platforms, src \in BOOLEAN : Start(sel, src)
    \/ \E p \in Platforms : Generate(p)
    \/ \E p \in Platforms, s \in Scores : Evaluate(p, s)
    \/ \E p \in Platforms : Regenerate(p)
    \/ \E p \in Platforms : AwaitHumanReview(p)
    \/ \E p \in Platforms : TransientStepFailure(p)
    \/ \E p \in Platforms : ExhaustedStepFailure(p)
    \/ \E p \in Platforms, d \in Decisions : Resume(p, d)

Spec == Init /\ [][Next]_vars

\* the workflow with its publish and cancel requests
NextCancel ==
    \/ Next
    \/ \E p \in Platforms : Publish(p)
    \/ Cancel
    \/ \E p \in Platforms : Discard(p)

SpecCancel == Init /\ [][NextCancel]_vars

(* ----------------- the route decision on its own ----------------------- *)
RouteArgs == 0..RouteRange

InitRoute ==
    /\ platforms = {}
    /\ max_iterations = 0
    /\ node = [p \in Platforms |-> "none"]
    /\ state = [p \in Platforms |-> InitialPlatformState]
    /\ status = [p \in Platforms |-> "none"]
    /\ drafts = [p \in Platforms |-> <<>>]
    /\ evaluations = [p \in Platforms |-> <<>>]
    /\ checkpoint = [p \in Platforms |-> NoCheckpoint]
    /\ response = NoCall
    /\ generate_calls = [p \in Platforms |-> 0]
    /\ pauses = [p \in Platforms |-> 0]
    /\ resumes = [p \in Platforms |-> 0]
    /\ route_in \in RouteArgs \X RouteArgs \X RouteArgs \X RouteArgs
    /\ route_out = "none"
    /\ attempts = [p \in Platforms |-> 0]
    /\ generation = [p \in Platforms |-> NoGeneration]
    /\ rejected_with = [p \in Platforms |-> NoReject]
    /\ InitPages

\* one evaluation of the conditional edge on <<score, threshold, iter, maxIter>>
Route ==
    /\ route_out = "none"
    /\ route_out' = RoutingOutcome(route_after_evaluation(
                        route_in[1], route_in[2], route_in[3], route_in[4]))
    /\ UNCHANGED <<page_vars, platforms, max_iterations, node, state, status, drafts,
                   evaluations, checkpoint, response, generate_calls, pauses,
                   resumes, route_in, attempts, generation, rejected_with>>

SpecRoute == InitRoute /\ [][Route]_vars

(* ------------------------------ getStatus ------------------------------ *)
\* the platform statuses that end a platform's part of the workflow
TerminalStatuses == {"accepted", "published", "rejected"}

\* the subgraph of platform p still has a step to run
ActivelyGenerating(p) == status[p] \in {"generating", "evaluating"}

\* a workflow status that takes a failed platform for a processed one
getStatus_ErrorCompletes ==
    IF \A p \in platforms : status[p] \in TerminalStatuses \cup {"error"}
    THEN "completed"
    ELSE IF \E p \in platforms : ActivelyGenerating(p) THEN "running"
    ELSE IF \E p \in platforms : state[p].awaiting_human THEN "awaiting_review"
    ELSE "failed"

\* a workflow status that reports the first pause, whatever the siblings do
getStatus_AnyAwaiting ==
    IF \A p \in platforms : status[p] \in TerminalStatuses THEN "completed"
    ELSE IF \E p \in platforms : state[p].awaiting_human THEN "awaiting_review"
    ELSE IF \E p \in platforms : ActivelyGenerating(p) THEN "running"
    ELSE "failed"

\* getStatus: the workflow status derived from the Platform States
getStatus ==
    IF \A p \in platforms : status[p] \in TerminalStatuses
    THEN "completed"
    ELSE IF /\ \E p \in platforms : state[p].awaiting_human
            /\ ~ \E p \in platforms : ActivelyGenerating(p)
    THEN "awaiting_review"
    ELSE IF /\ \E p \in platforms : status[p] = "error"
            /\ ~ \E p \in platforms : ActivelyGenerating(p)
    THEN "failed"
    ELSE "running"

\* getStatus(workflowId): the read-only view of a started workflow
WorkflowView ==
    [status |-> getStatus, platforms |-> [p \in platforms |-> status[p]]]

(* ------------------------------- claims -------------------------------- *)
Accepted(p) == state[p].accepted \/ status[p] = "accepted"

\* C1: a platform becomes Accepted only by an applied accept or editAndAccept
\* decision taken while it was awaiting human review; no node of the
\* subgraph, whatever the score, marks it Accepted.
C1_AcceptedOnlyByResume ==
    [][\A p \in Platforms :
         (~Accepted(p) /\ Accepted(p)') =>
            /\ state[p].awaiting_human
            /\ status[p] = "awaiting_review"
            /\ response'.op = "resume"
            /\ response'.platform = p
            /\ response'.decision \in {"accept", "editAndAccept"}
            /\ response'.result = "ok"]_vars

\* C1 witness: a platform whose draft scored at the threshold has just been
\* accepted by a human decision
C1_Witness ==
    \E p \in Platforms :
        /\ status[p] = "accepted"
        /\ state[p].last_evaluation.score >= Threshold
        /\ response.op = "resume" /\ response.platform = p
        /\ response.decision = "accept"

\* the Route decision as the specification states it
RouteReference(score, thr, iter, maxIter) ==
    IF score >= thr THEN "hitl"
    ELSE IF iter < maxIter THEN "regenerate"
    ELSE "hitl"

\* C2: on every <<score, threshold, iter, maxIter>> of the explored ranges the
\* route decision leads to human review when score >= threshold (equality
\* included) or when iter >= maxIter, to regeneration otherwise, and to
\* nothing else.
C2_RouteMatchesReference ==
    route_out # "none" =>
        /\ route_out = RouteReference(route_in[1], route_in[2], route_in[3], route_in[4])
        /\ route_out \in {"hitl", "regenerate"}

\* C2 witness: the tie score = threshold, with retries left, routed to review
C2_Witness ==
    /\ route_out = "hitl"
    /\ route_in[1] = route_in[2]
    /\ route_in[3] < route_in[4]

IterationNonDecreasing ==
    [][\A p \in Platforms : state'[p].iteration >= state[p].iteration]_vars

\* C5 as stated: the iteration counter never decreases and, until a pause has
\* been forced, never exceeds maxIter.
C5_Original ==
    /\ IterationNonDecreasing
    /\ [](\A p \in Platforms : pauses[p] = 0 => state[p].iteration <= max_iterations)

\* C5 amended: the iteration counter never decreases and, until a pause has
\* been forced, never exceeds max(1, maxIter); the subgraph regenerates only
\* while the counter is below maxIter.
C5_IterationBounded ==
    /\ IterationNonDecreasing
    /\ [](\A p \in Platforms :
            /\ pauses[p] = 0 => state[p].iteration <= Max(1, max_iterations)
            /\ node[p] = "regenerate" => state[p].iteration < max_iterations)

\* C5 witness: the counter has reached maxIter with a draft under the
\* threshold, and the first pause is about to be forced
C5_Witness ==
    \E p \in Platforms :
        /\ pauses[p] = 0
        /\ node[p] = "hitl"
        /\ max_iterations >= 2
        /\ state[p].iteration = max_iterations
        /\ state[p].last_evaluation.score < Threshold

\* index of the first score of rows at or above the threshold, Len + 1 if none
FirstPass(rows) ==
    IF \E k \in 1..Len(rows) : rows[k].score >= Threshold
    THEN CHOOSE k \in 1..Len(rows) :
            /\ rows[k].score >= Threshold
            /\ \A j \in 1..(k - 1) : rows[j].score < Threshold
    ELSE Len(rows) + 1

FirstPause(p) == state[p].awaiting_human /\ resumes[p] = 0

\* C6: at its first pause a platform has made exactly min(k, max(1, maxIter))
\* Generate calls, k the index of the first score at or above the threshold;
\* as many drafts exist, the last one is active, and the status is
\* awaiting_review (no error status).
C6_FirstPauseAfterMinCalls ==
    \A p \in Platforms :
        FirstPause(p) =>
            /\ generate_calls[p] = Min(FirstPass(evaluations[p]), Max(1, max_iterations))
            /\ Len(evaluations[p]) = generate_calls[p]
            /\ Len(drafts[p]) = generate_calls[p]
            /\ state[p].current_draft = Len(drafts[p])
            /\ status[p] = "awaiting_review"

\* C6 witness (scenario A): maxIter = 3, scores below, below, at the
\* threshold; the platform pauses with three drafts, the third active
C6_Witness ==
    \E p \in Platforms :
        /\ FirstPause(p)
        /\ max_iterations = 3
        /\ Len(drafts[p]) = 3
        /\ evaluations[p][1].score < Threshold
        /\ evaluations[p][2].score < Threshold
        /\ evaluations[p][3].score >= Threshold
        /\ state[p].current_draft = 3

\* C7: a platform whose status is awaiting_review has an active draft, and
\* the reference names a stored Draft row.
C7_AwaitingReviewHasDraft ==
    \A p \in Platforms :
        status[p] = "awaiting_review" =>
            /\ state[p].current_draft # NoDraft
            /\ state[p].current_draft \in 1..Len(drafts[p])

\* C7 witness: a platform paused again after a human reject
C7_Witness ==
    \E p \in Platforms :
        /\ status[p] = "awaiting_review"
        /\ resumes[p] >= 1
        /\ drafts[p][state[p].current_draft].source = "ai"

\* DraftView.is_active: the row the platform's active-draft reference names
is_active(p, i) == i = state[p].current_draft
ActiveDrafts(p) == {i \in 1..Len(drafts[p]) : is_active(p, i)}

\* C8 as stated: every platform state has exactly one active draft, always.
C8_Original ==
    \A p \in platforms : Cardinality(ActiveDrafts(p)) = 1

\* C8 amended: at most one draft of a platform is active at any time; exactly
\* one while the platform is evaluating, awaiting review or accepted, and none
\* while a Generate is pending (before the first Generate, and between
\* Regenerate or a reject and the next Generate); every other draft is in the
\* superseded list.
C8_AtMostOneActive ==
    \A p \in platforms :
        /\ Cardinality(ActiveDrafts(p)) <= 1
        /\ status[p] \in {"evaluating", "awaiting_review", "accepted"}
              => Cardinality(ActiveDrafts(p)) = 1
        /\ node[p] = "generate" => ActiveDrafts(p) = {}
        /\ \A i \in 1..Len(drafts[p]) :
              is_active(p, i) \/
              \E k \in 1..Len(state[p].previous_drafts) : state[p].previous_drafts[k] = i

\* C8 witness: between Regenerate and the next Generate no draft is active
C8_Witness ==
    \E p \in platforms :
        /\ node[p] = "generate"
        /\ Len(drafts[p]) >= 1
        /\ resumes[p] = 0
        /\ ActiveDrafts(p) = {}

\* the draft reached from i by following based_on_id n times
RECURSIVE BasedOnWalk(_, _, _)
BasedOnWalk(rows, i, n) ==
    IF n = 0 \/ i = NoDraft \/ i > Len(rows) THEN i
    ELSE BasedOnWalk(rows, rows[i].based_on_id, n - 1)

\* C9: the based_on references of a platform's drafts form a simple chain:
\* each names a stored draft or none, no draft is its own ancestor, and no
\* draft is the based_on target of two drafts.
C9_BasedOnSimpleChain ==
    \A p \in Platforms :
        LET rows == drafts[p] IN
        \A i \in 1..Len(rows) :
            /\ rows[i].based_on_id \in {NoDraft} \cup (1..Len(rows))
            /\ \A n \in 1..Len(rows) : BasedOnWalk(rows, i, n) # i
            /\ Cardinality({j \in 1..Len(rows) : rows[j].based_on_id = i}) <= 1

\* C9 witness: a chain of three drafts or more that holds a human edit and a
\* later generated draft
C9_Witness ==
    \E p \in Platforms :
        /\ Len(drafts[p]) >= 3
        /\ \E i \in 1..Len(drafts[p]), j \in 1..Len(drafts[p]) :
              /\ i < j
              /\ drafts[p][i].source = "human"
              /\ drafts[p][j].source = "ai"

AcceptDecision == [kind |-> "accept", arg |-> "none"]

\* C10: accept on a platform awaiting human review makes it Accepted, adds
\* no Draft row, and leaves the active draft reference and that draft's
\* provenance as they were.
C10_AcceptKeepsDraft ==
    [][\A p \in Platforms :
         (Resume(p, AcceptDecision) /\ state[p].awaiting_human) =>
            /\ status'[p] = "accepted"
            /\ state'[p].accepted
            /\ ~state'[p].awaiting_human
            /\ drafts' = drafts
            /\ state'[p].current_draft = state[p].current_draft
            /\ state'[p].current_draft # NoDraft
            /\ drafts'[p][state'[p].current_draft].source
                  = drafts[p][state[p].current_draft].source]_vars

\* C10 witness: an accept was just applied and the active draft is the
\* generated one, provenance ai
C10_Witness ==
    \E p \in Platforms :
        /\ response.op = "resume" /\ response.result = "ok"
        /\ response.platform = p /\ response.decision = "accept"
        /\ status[p] = "accepted"
        /\ state[p].current_draft # NoDraft
        /\ drafts[p][state[p].current_draft].source = "ai"
        /\ Len(drafts[p]) = generate_calls[p]

RejectDecisions == {[kind |-> "reject", arg |-> f] : f \in Feedbacks}

\* C11: resume(reject(feedback)) on a platform awaiting human review archives
\* the active draft and hands the platform to Generate; exactly one Generate
\* call serves the reject, its previous_feedback is the feedback of the reject
\* (the last automatic feedback when none was supplied), the draft it
\* produces is the new active draft, based on the rejected one, and the
\* iteration counter goes up by one.
C11_RejectRegeneratesWithFeedback ==
    /\ [](\A p \in Platforms :
            rejected_with[p] # NoReject =>
               /\ node[p] = "generate"
               /\ state[p].current_draft = NoDraft
               /\ ~state[p].awaiting_human)
    /\ [][\A p \in Platforms :
            /\ \A d \in RejectDecisions :
                  (state[p].awaiting_human /\ Resume(p, d)) =>
                     /\ rejected_with'[p] = d.arg
                     /\ generate_calls'[p] = generate_calls[p]
                     /\ drafts'[p] = drafts[p]
                     /\ state'[p].iteration = state[p].iteration
                     /\ state'[p].previous_drafts
                           = Append(state[p].previous_drafts, state[p].current_draft)
            /\ (rejected_with[p] # NoReject /\ generate_calls'[p] # generate_calls[p]) =>
                  /\ generate_calls'[p] = generate_calls[p] + 1
                  /\ rejected_with'[p] = NoReject
                  /\ generation'[p] = IF rejected_with[p] = "none"
                                      THEN state[p].last_evaluation.feedback
                                      ELSE rejected_with[p]
                  /\ state'[p].iteration = state[p].iteration + 1
                  /\ Len(drafts'[p]) = Len(drafts[p]) + 1
                  /\ state'[p].current_draft = Len(drafts'[p])
                  /\ LET rejected == state[p].previous_drafts[Len(state[p].previous_drafts)]
                     IN  /\ drafts'[p][Len(drafts'[p])].based_on_id = rejected
                         /\ ~is_active(p, rejected)']_vars

\* C11 witness (scenario D): the Generate after reject("too technical") has
\* run; its call got that feedback and its draft is the active one
C11_Witness ==
    \E p \in Platforms :
        /\ generation[p] = "too technical"
        /\ node[p] = "evaluate"
        /\ resumes[p] = 1
        /\ Len(drafts[p]) >= 2
        /\ state[p].current_draft = Len(drafts[p])
        /\ state[p].iteration = Len(drafts[p])

\* automatic Regenerate transitions route_after_evaluation still allows a
\* platform: it picks "regenerate" while iteration < max_iterations, and each
\* regeneration adds one to iteration
RegenerationsLeft(p) == Max(0, max_iterations - state[p].iteration)

\* C12: a human reject is not counted against maxIter: the Generate that
\* serves a reject leaves the iteration counter route_after_evaluation
\* compares with max_iterations, and with it the number of automatic
\* Regenerate transitions still allowed, as they were before the reject.
C12_RejectNotCounted ==
    [][\A p \in Platforms :
         (rejected_with[p] # NoReject /\ generate_calls'[p] # generate_calls[p]) =>
            /\ state'[p].iteration = state[p].iteration
            /\ RegenerationsLeft(p)' = RegenerationsLeft(p)]_vars

\* C12, the run that refutes it: max_iterations = 3, the first draft scores
\* at the threshold and pauses at iteration 1 with two regenerations left;
\* after reject and its Generate the iteration is 2 and one is left
C12_RejectCounted ==
    \E p \in Platforms :
        /\ max_iterations = 3
        /\ resumes[p] = 1
        /\ node[p] = "evaluate"
        /\ Len(evaluations[p]) = 1
        /\ evaluations[p][1].score >= Threshold
        /\ state[p].iteration = 2
        /\ RegenerationsLeft(p) = 1

EditDecisions == {[kind |-> "edit", arg |-> c] : c \in Contents}

EditAndAcceptDecisions == {[kind |-> "editAndAccept", arg |-> c] : c \in Contents}

\* what a reader of the checkpoint of p and a reader of its Platform State
\* row see is one and the same platform
CoherentRead(p) ==
    /\ checkpoint[p].state = state[p]
    /\ checkpoint[p].status = status[p]
    /\ (status[p] \in {"accepted", "published"}) = state[p].accepted

C15_AwaitingReviewIff ==
    platforms # {} =>
       /\ (getStatus = "awaiting_review") =
             (/\ \E p \in platforms : state[p].awaiting_human
              /\ \A p \in platforms : status[p] \notin {"generating", "evaluating"})
       /\ \A a, b \in platforms :
             (state[a].awaiting_human /\ status[b] = "generating") =>
                getStatus = "running"

\* C15 witness (scenario C): linkedin is paused for review while x is still
\* generating, and the workflow reads running
C15_Witness ==
    /\ platforms = Platforms
    /\ state["linkedin"].awaiting_human
    /\ status["linkedin"] = "awaiting_review"
    /\ status["x"] = "generating"
    /\ WorkflowView.status = "running"

C16_NotCompletedOnError ==
    /\ platforms = Platforms
    /\ status["linkedin"] = "accepted"
    /\ status["x"] = "error"
    /\ getStatus = "failed"

\* the step of its own subgraph platform p takes next
OwnStep(p) ==
    \/ Generate(p)
    \/ \E s \in Scores : Evaluate(p, s)
    \/ Regenerate(p)
    \/ AwaitHumanReview(p)

\* what the workflow holds of platform p
PlatformPart(p) ==
    <<node[p], state[p], status[p], drafts[p], evaluations[p], checkpoint[p],
      attempts[p], generate_calls[p], pauses[p], resumes[p]>>

\* C17: the platforms of a workflow are independent: a platform with a node
\* left to run can run it whatever its siblings are doing (paused, failed,
\* accepted, mid generate or evaluate), and the step changes nothing of a
\* sibling; no step waits for another platform.
C17_PlatformsIndependent ==
    /\ [](\A p \in platforms :
            node[p] \in {"generate", "evaluate", "regenerate", "hitl"} =>
               ENABLED OwnStep(p))
    /\ [][\A p \in Platforms :
            OwnStep(p) => \A q \in Platforms \ {p} : PlatformPart(q)' = PlatformPart(q)]_vars

\* C17 witness: linkedin has paused for review while x, one failed attempt
\* behind it, still has its first draft to generate
C17_Witness ==
    /\ platforms = Platforms
    /\ status["linkedin"] = "awaiting_review"
    /\ node["x"] = "generate"
    /\ attempts["x"] > 0
    /\ Len(drafts["x"]) = 0

\* every platform subgraph keeps running its nodes: a node that can run does
SpecFair == Spec /\ \A p \in Platforms : WF_vars(OwnStep(p))

\* C17 under fairness: with its own steps taken whenever they stay enabled,
\* every platform of a started workflow reaches the end of its subgraph (a
\* pause for review or a terminal status), and does so again after each
\* reject, whatever the other platforms do.
C17_IndependentProgress ==
    /\ C17_PlatformsIndependent
    /\ \A p \in Platforms : (p \in platforms) ~> (node[p] = "end")

\* the draft rows of a run the generator was called k times in, no review
\* decision applied
GeneratedDrafts(k) ==
    [i \in 1..k |-> [id |-> i, source |-> "ai", content |-> "gen", based_on_id |-> i - 1]]

\* the Platform State of a run with zero failures that has stored the
\* evaluation rows evals and runs node nd next, no review decision applied
ZeroFailureState(nd, evals) ==
    LET e == Len(evals)
        k == IF nd = "evaluate" THEN e + 1 ELSE e
        archived == IF nd = "generate" THEN k ELSE k - 1
    IN  [current_draft |-> IF nd = "generate" THEN NoDraft ELSE k,
         previous_drafts |-> [i \in 1..archived |-> i],
         last_evaluation |-> IF e = 0 THEN NoEvaluation
                             ELSE [score |-> evals[e].score, feedback |-> "auto"],
         iteration |-> k,
         awaiting_human |-> (nd = "end"),
         accepted |-> FALSE,
         rejected |-> FALSE]

\* the status column of that run
ZeroFailureStatus(nd) ==
    CASE nd = "generate" -> "generating"
      [] nd \in {"evaluate", "regenerate", "hitl"} -> "evaluating"
      [] nd = "end" -> "awaiting_review"

\* C18: failed attempts that are retried leave no trace.  A failed attempt
\* changes nothing but the retry count of its node - no Draft or Evaluation
\* row, no checkpoint, no iteration - and the node that then succeeds resets
\* that count; so, before any review decision, a platform that has not
\* failed for good has exactly the Platform State, status and Draft and
\* Evaluation rows of the run with zero failures that saw the same scores.
C18_RetriesLeaveNoTrace ==
    /\ [](\A p \in platforms :
            (resumes[p] = 0 /\ status[p] # "error") =>
               /\ state[p] = ZeroFailureState(node[p], evaluations[p])
               /\ status[p] = ZeroFailureStatus(node[p])
               /\ drafts[p] = GeneratedDrafts(state[p].iteration)
               /\ \A i \in 1..Len(evaluations[p]) :
                     /\ evaluations[p][i].draft_id = i
                     /\ evaluations[p][i].iteration = i)
    /\ [][\A p \in Platforms :
            /\ attempts'[p] > attempts[p] =>
                  /\ attempts'[p] = attempts[p] + 1
                  /\ state' = state /\ status' = status /\ node' = node
                  /\ drafts' = drafts /\ evaluations' = evaluations
                  /\ checkpoint' = checkpoint
                  /\ state'[p].iteration = state[p].iteration
            /\ (drafts'[p] # drafts[p] \/ evaluations'[p] # evaluations[p]) =>
                  attempts'[p] = 0]_vars

\* C18 witness (scenario E): the generator of a platform has failed twice on
\* its second draft - the first draft went through generate and evaluate,
\* failing attempts or not - and the platform shows one draft, one
\* evaluation and iteration 1
C18_Witness ==
    \E p \in Platforms :
        /\ node[p] = "generate"
        /\ attempts[p] = 2
        /\ Len(drafts[p]) = 1
        /\ Len(evaluations[p]) = 1
        /\ state[p].iteration = 1
        /\ state[p] = ZeroFailureState("generate", evaluations[p])

PlatformStatuses ==
    {"generating", "evaluating", "awaiting_review", "accepted", "rejected",
     "published", "error"}

WorkflowStatuses == {"running", "awaiting_review", "completed", "failed"}

\* C19: when a node of one platform fails once more after its last retry,
\* that platform, and no other, moves to the error status: its drafts,
\* evaluations and state stay as they are and nothing of a sibling changes;
\* a platform gets the error status in no other way; getStatus keeps
\* returning one status per platform of the workflow and one of the four
\* workflow statuses - there is no workflow-wide crash state.
C19_ExhaustionIsLocal ==
    /\ [](platforms # {} =>
            /\ DOMAIN WorkflowView.platforms = platforms
            /\ \A p \in platforms : WorkflowView.platforms[p] \in PlatformStatuses
            /\ WorkflowView.status \in WorkflowStatuses)
    /\ [][\A p \in Platforms :
            /\ ExhaustedStepFailure(p) => status'[p] = "error"
            /\ (status'[p] = "error" /\ status[p] # "error") =>
                  /\ attempts[p] = MaxRetries
                  /\ node[p] \in {"generate", "evaluate"}
                  /\ node'[p] = "end"
                  /\ state'[p] = state[p]
                  /\ drafts' = drafts /\ evaluations' = evaluations
                  /\ platforms' = platforms
                  /\ \A q \in Platforms \ {p} : PlatformPart(q)' = PlatformPart(q)]_vars

\* C19 witness: x has failed for good while linkedin went on to its pause;
\* the view still names both platforms, each with its own status
C19_Witness ==
    /\ platforms = Platforms
    /\ status["x"] = "error"
    /\ status["linkedin"] = "awaiting_review"
    /\ WorkflowView.platforms["x"] = "error"
    /\ WorkflowView.platforms["linkedin"] = "awaiting_review"
    /\ WorkflowView.status \in WorkflowStatuses

\* nothing of a workflow exists: no platform, Platform State, Draft,
\* Evaluation or checkpoint, and no subgraph has a node to run
NothingCreated ==
    /\ platforms = {}
    /\ \A p \in Platforms :
          /\ node[p] = "none"
          /\ status[p] = "none"
          /\ state[p] = InitialPlatformState
          /\ drafts[p] = <<>>
          /\ evaluations[p] = <<>>
          /\ checkpoint[p] = NoCheckpoint
          /\ generate_calls[p] = 0
    /\ ~ ENABLED (\E p \in Platforms : OwnStep(p))

\* C20: start fails with InvalidSpec when the spec names no platform or
\* lacks its source material, and only then; the failed call creates no
\* Workflow, Platform State, Draft or checkpoint and launches no execution.
C20_InvalidSpecCreatesNothing ==
    /\ [](response.result = "InvalidSpec" => NothingCreated)
    /\ [][\A sel \in SUBSET Platforms, src \in BOOLEAN :
            Start(sel, src) =>
               IF sel = {} \/ ~src
               THEN /\ response'.result = "InvalidSpec"
                    /\ UNCHANGED <<platforms, node, state, status, drafts,
                                   evaluations, checkpoint, generate_calls>>
               ELSE /\ response'.result = "ok"
                    /\ platforms' = sel]_vars

\* C20 witness: a start without source material was just refused and
\* nothing exists
C20_Witness ==
    /\ response.op = "start"
    /\ response.result = "InvalidSpec"
    /\ NothingCreated

(* ------------------------------- C23 ----------------------------------- *)
\* C23: a publish/schedule request is sent only for a platform that has been
\* accepted: every publish step acts on a platform whose status is accepted
\* or already published, never on one that is generating, evaluating,
\* awaiting_review, rejected or error; and a platform for which publishing
\* is offered never falls back to one of those statuses, so a request sent
\* from a dialog opened earlier still finds the platform accepted.
C23_PublishOnlyAfterAccepted ==
    [][\A p \in Platforms :
          /\ Publish(p) =>
                /\ status[p] \in {"accepted", "published"}
                /\ state[p].accepted
                /\ status[p] \notin {"generating", "evaluating",
                                     "awaiting_review", "rejected", "error"}
          /\ PublishOffered(p) => PublishOffered(p)']_vars

C23_Witness ==
    \E p \in platforms :
        /\ response.op = "publish"
        /\ response.platform = p
        /\ response.result = "ok"
        /\ status[p] = "published"
        /\ \E q \in platforms : status[q] = "awaiting_review"

(* ------------------------------- C21 ----------------------------------- *)
\* C21: a cancel request marks every non-terminal platform rejected and
\* leaves every terminal platform as it is, so a second cancel changes
\* nothing the first has not changed; when the generator or evaluator call
\* that was in flight at the cancel completes, its result is discarded: no
\* draft is created or made active, no evaluation is stored and the status
\* stays rejected. A cancelled platform has no generate or evaluate node
\* left to run.
C21_CancelIdempotent ==
    /\ [](Cancelled(Cancelled(PlatformStates)) = Cancelled(PlatformStates))
    /\ [](\A p \in Platforms :
             node[p] = "discard" =>
                /\ status[p] = "rejected"
                /\ ~ENABLED Generate(p)
                /\ ~(\E s \in Scores : ENABLED Evaluate(p, s)))
    /\ [][Cancel =>
            /\ Cancelled(PlatformStates') = PlatformStates'
            /\ \A p \in platforms :
                  IF status[p] \in FinalStatuses
                  THEN PlatformPart(p)' = PlatformPart(p)
                  ELSE /\ status'[p] = "rejected"
                       /\ ~state'[p].awaiting_human
                       /\ checkpoint'[p].status = "rejected"]_vars
    /\ [][\A p \in Platforms :
            Discard(p) =>
                /\ status'[p] = "rejected"
                /\ state' = state
                /\ drafts' = drafts
                /\ evaluations' = evaluations
                /\ checkpoint' = checkpoint]_vars

\* a platform cancelled while its first generator call was in flight has
\* dropped the result, next to a platform that was accepted before the cancel
C21_Witness ==
    \E p, q \in platforms :
        /\ status[p] = "rejected"
        /\ node[p] = "end"
        /\ drafts[p] = <<>>
        /\ state[p].current_draft = NoDraft
        /\ status[q] = "accepted"
        /\ checkpoint[q].status = "accepted"

(* ------------------------------- C24 ----------------------------------- *)
\* a step of platform p is in progress
StepInProgress(p) == node[p] \notin {"none", "end"}

\* what a reviewer sees of platform p
ReviewedPart(p) ==
    <<status[p], state[p].current_draft, state[p].iteration, drafts[p],
      evaluations[p]>>

\* C24: while a platform awaits its human no automatic transition of its
\* state machine is enabled; its status, active draft, iteration counter,
\* drafts and evaluations change only by a resume call for that platform or
\* by a cancel; and a non-terminal platform with no step in progress is
\* always one that awaits its human.
C24_AwaitingHumanIsInert ==
    /\ [](\A p \in platforms :
             state[p].awaiting_human =>
                /\ ~StepInProgress(p)
                /\ ~ENABLED OwnStep(p)
                /\ ~ENABLED TransientStepFailure(p)
                /\ ~ENABLED ExhaustedStepFailure(p)
                /\ ~ENABLED Discard(p))
    /\ [](\A p \in platforms :
             (status[p] \notin FinalStatuses /\ ~StepInProgress(p))
                => state[p].awaiting_human)
    /\ [][\A p \in platforms :
             (state[p].awaiting_human /\ ReviewedPart(p)' # ReviewedPart(p))
                => \/ \E d \in Decisions : Resume(p, d)
                   \/ Cancel]_vars

\* a platform rests at its review while its sibling is in its loop
C24_Witness ==
    \E p, q \in platforms :
        /\ state[p].awaiting_human
        /\ status[p] = "awaiting_review"
        /\ node[p] = "end"
        /\ node[q] \in {"generate", "evaluate", "regenerate"}
        /\ generate_calls[q] > generate_calls[p]

(* ------------------------------- C25 ----------------------------------- *)
\* the Evaluation rows of draft i of platform p
EvaluationsOf(p, i) ==
    {k \in 1..Len(evaluations[p]) : evaluations[p][k].draft_id = i}

\* checkpoint ck of a platform with state st and Draft rows `rows` is that
\* of a pause: flag set, status awaiting_review, an active draft that
\* exists, the latest evaluation, no node left to run
PauseCheckpoint(ck, st, rows) ==
    /\ ck.state.awaiting_human
    /\ ck.status = "awaiting_review"
    /\ ck.state.current_draft # NoDraft
    /\ ck.state.current_draft \in 1..Len(rows)
    /\ ck.state.last_evaluation # NoEvaluation
    /\ ck.next = "end"
    /\ ck.state = st

\* the step pauses platform p: its HITL node runs or an edit re-enters the
\* review
PauseTransition(p) ==
    \/ AwaitHumanReview(p)
    \/ \E d \in EditDecisions : Resume(p, d) /\ response'.result = "ok"

LaunchStep(p) ==
    \/ \E sel \in SUBSET Platforms, src \in BOOLEAN :
           Start(sel, src) /\ p \in platforms'
    \/ \E d \in RejectDecisions : Resume(p, d) /\ response'.result = "ok"

\* what is stored under the key of platform p
StoredUnderKey(p) ==
    <<state[p], status[p], checkpoint[p], drafts[p], evaluations[p]>>

LoadCheckpoint(p) == checkpoint[p]

\* the Platform State a checkpoint restores
Restored(ck) ==
    [status |-> ck.status,
     active_draft |-> ck.state.current_draft,
     iteration |-> ck.state.iteration,
     awaiting_human |-> ck.state.awaiting_human]

\* the Platform State of platform p as it is served
PlatformState(p) ==
    [status |-> status[p],
     active_draft |-> state[p].current_draft,
     iteration |-> state[p].iteration,
     awaiting_human |-> state[p].awaiting_human]

C27_ExecutionTerminates ==
    /\ [](\A p \in platforms :
             node[p] = "regenerate" => state[p].iteration < max_iterations)
    /\ [][\A p \in Platforms :
             Generate(p) => state'[p].iteration = state[p].iteration + 1]_vars
    /\ \A p \in Platforms :
          (node[p] \in {"generate", "evaluate", "regenerate", "hitl"})
             ~> (state[p].awaiting_human \/ status[p] = "error")

\* an execution relaunched by a reject has reached its pause after a full
\* loop, next to a platform that ended in error
C27_Witness ==
    \E p, q \in platforms :
        /\ state[p].awaiting_human
        /\ pauses[p] = 2 /\ resumes[p] = 1
        /\ generate_calls[p] > max_iterations
        /\ max_iterations > 0
        /\ status[q] = "error"

(* ------------------------------- C28 ----------------------------------- *)
\* the conditions stated for the workflow statuses
CompletedCondition == \A p \in platforms : status[p] \in TerminalStatuses

AwaitingReviewCondition ==
    /\ \E p \in platforms : state[p].awaiting_human
    /\ ~ \E p \in platforms : ActivelyGenerating(p)

FailedCondition ==
    /\ \E p \in platforms : status[p] = "error"
    /\ ~ \E p \in platforms : ActivelyGenerating(p)

\* C28 as stated: the conditions for completed, awaiting_review and failed
\* are pairwise exclusive.
C28_Original ==
    platforms # {} =>
       /\ ~(CompletedCondition /\ AwaitingReviewCondition)
       /\ ~(CompletedCondition /\ FailedCondition)
       /\ ~(AwaitingReviewCondition /\ FailedCondition)

\* C28: getStatus derives one workflow status from every combination of
\* platform states: completed exactly under its condition, which excludes
\* the conditions for awaiting_review and failed; awaiting_review or failed
\* exactly when one of their conditions holds, running when none does. The
\* conditions for awaiting_review and failed are not exclusive: both hold
\* when one platform is in error and another awaits review with none
\* generating.
C28_OneStatusDerived ==
    platforms # {} =>
       /\ getStatus \in WorkflowStatuses
       /\ ~(CompletedCondition /\ AwaitingReviewCondition)
       /\ ~(CompletedCondition /\ FailedCondition)
       /\ (getStatus = "completed") = CompletedCondition
       /\ (getStatus \in {"awaiting_review", "failed"})
             = (AwaitingReviewCondition \/ FailedCondition)
       /\ (getStatus = "running")
             = ~(CompletedCondition \/ AwaitingReviewCondition \/ FailedCondition)
       /\ getStatus = "awaiting_review" => AwaitingReviewCondition
       /\ getStatus = "failed" => FailedCondition
       /\ (AwaitingReviewCondition /\ FailedCondition)
             = (/\ \E p \in platforms : status[p] = "error"
                /\ \E p \in platforms : status[p] = "awaiting_review"
                /\ ~ \E p \in platforms : ActivelyGenerating(p))

\* one platform in error, one awaiting review, none generating
C28_Witness ==
    \E p, q \in platforms :
        /\ status[p] = "error"
        /\ state[q].awaiting_human
        /\ AwaitingReviewCondition
        /\ FailedCondition
        /\ getStatus \in {"awaiting_review", "failed"}

(* -------------------------- StyleSetup wizard -------------------------- *)
\* the steps of the wizard: Questions, Connect, Upload, Analyze, Confirm
QuestionsStep == 0
ConnectStep == 1
UploadStep == 2
AnalyzeStep == 3
ConfirmStep == 4

\* handleNextQuestion / handleSkipQuestion: the next question, or the
\* Connect step after the last one
handleNextQuestion ==
    /\ currentStep = QuestionsStep
    /\ IF questionIndex < NumQuestions - 1
       THEN questionIndex' = questionIndex + 1 /\ UNCHANGED currentStep
       ELSE currentStep' = ConnectStep /\ UNCHANGED questionIndex
    /\ UNCHANGED <<engine_vars, workspace_vars, isAnalyzing, analysisComplete,
                   sources, analyze>>

\* the "skip" link of the Questions step
SkipQuestions ==
    /\ currentStep = QuestionsStep
    /\ currentStep' = ConnectStep
    /\ UNCHANGED <<engine_vars, workspace_vars, isAnalyzing, analysisComplete,
                   questionIndex, sources, analyze>>

\* the continue button of the Connect step
ContinueToUpload ==
    /\ currentStep = ConnectStep
    /\ currentStep' = UploadStep
    /\ UNCHANGED <<engine_vars, workspace_vars, isAnalyzing, analysisComplete,
                   questionIndex, sources, analyze>>

\* handleFileUpload / handleUrlAdd: a new source, processing
handleUrlAdd ==
    /\ currentStep = UploadStep
    /\ Len(sources) < MaxSources
    /\ sources' = Append(sources, "processing")
    /\ UNCHANGED <<engine_vars, workspace_vars, currentStep, isAnalyzing,
                   analysisComplete, questionIndex, analyze>>

\* the upload of source i settles
SourceSettled(i, outcome) ==
    /\ i \in 1..Len(sources)
    /\ sources[i] = "processing"
    /\ sources' = [sources EXCEPT ![i] = outcome]
    /\ UNCHANGED <<engine_vars, workspace_vars, currentStep, isAnalyzing,
                   analysisComplete, questionIndex, analyze>>

\* removeSource
removeSource(i) ==
    /\ currentStep = UploadStep
    /\ i \in 1..Len(sources)
    /\ sources' = [k \in 1..(Len(sources) - 1) |->
                      IF k < i THEN sources[k] ELSE sources[k + 1]]
    /\ UNCHANGED <<engine_vars, workspace_vars, currentStep, isAnalyzing,
                   analysisComplete, questionIndex, analyze>>

\* handleAnalyze up to its await: the Analyze button is rendered on the
\* Upload step and disabled while isAnalyzing; the call keeps the
\* currentStep of the render it was made from
handleAnalyze ==
    /\ currentStep = UploadStep
    /\ ~isAnalyzing
    /\ isAnalyzing' = TRUE
    /\ currentStep' = AnalyzeStep
    /\ analyze' = [pc |-> "awaiting", currentStep |-> currentStep]
    /\ UNCHANGED <<engine_vars, workspace_vars, analysisComplete, questionIndex,
                   sources>>

\* api.analyzeStyle resolves: the try block and finally
AnalyzeResolved ==
    /\ analyze.pc = "awaiting"
    /\ analysisComplete' = TRUE
    /\ currentStep' = ConfirmStep
    /\ isAnalyzing' = FALSE
    /\ analyze' = NoAnalyze
    /\ UNCHANGED <<engine_vars, workspace_vars, questionIndex, sources>>

\* api.analyzeStyle rejects: the catch block and finally; the test reads the
\* currentStep the call has kept
AnalyzeRejected ==
    /\ analyze.pc = "awaiting"
    /\ isAnalyzing' = FALSE
    /\ currentStep' = IF analyze.currentStep = AnalyzeStep
                      THEN UploadStep
                      ELSE currentStep
    /\ analyze' = NoAnalyze
    /\ UNCHANGED <<engine_vars, workspace_vars, analysisComplete, questionIndex,
                   sources>>

NextWizard ==
    \/ handleNextQuestion
    \/ SkipQuestions
    \/ ContinueToUpload
    \/ handleUrlAdd
    \/ \E i \in 1..MaxSources, outcome \in {"done", "error"} : SourceSettled(i, outcome)
    \/ \E i \in 1..MaxSources : removeSource(i)
    \/ handleAnalyze
    \/ AnalyzeResolved
    \/ AnalyzeRejected

\* the pages are explored with the engine at rest
InitPage == Init /\ max_iterations = MaxIterCfg

SpecWizard == InitPage /\ [][NextWizard]_vars

(* ------------------------------- C29 ----------------------------------- *)
\* C29: when api.analyzeStyle fails while handleAnalyze runs, the wizard
\* ends with isAnalyzing false and currentStep back at the Upload step: once
\* the request has settled the wizard is never left on the Analyze step.
C29_FailedAnalysisReturnsToUpload ==
    analyze.pc = "idle" => (~isAnalyzing /\ currentStep # AnalyzeStep)

\* the request has failed and the wizard shows the Analyze step, its spinner
\* turning, with nothing in flight
C29_StuckOnAnalyzeStep ==
    /\ analyze.pc = "idle"
    /\ ~isAnalyzing
    /\ ~analysisComplete
    /\ currentStep = AnalyzeStep

(* --------------------------- ReviewWorkspace --------------------------- *)
\* ReviewAction
ReviewActions == {"accept", "reject", "edit_and_refine", "edit_and_publish"}

\* the platform statuses a fetched workflow shows
ViewStatuses == {"generating", "awaiting_review", "accepted"}

\* the status the refreshed workflow shows for a platform once a review
\* action has been applied to it
StatusShownAfter(action) ==
    CASE action = "accept" -> "accepted"
      [] action = "reject" -> "generating"
      [] action = "edit_and_refine" -> "awaiting_review"
      [] action = "edit_and_publish" -> "accepted"

\* sequence s without its element i
Without(s, i) ==
    [k \in 1..(Len(s) - 1) |-> IF k < i THEN s[k] ELSE s[k + 1]]

\* the initial fetch of the workflow
fetchWorkflow ==
    /\ workflow = NoWorkflow
    /\ workflow' \in [Platforms -> ViewStatuses]
    /\ UNCHANGED <<engine_vars, wizard_vars, submittingAction, pending,
                   scheduleModalOpen, selectedPlatform>>

\* handleReviewAction(platform, action) up to its await: the four buttons
\* are rendered while the platform shows awaiting_review and are disabled
\* while submittingAction is that platform
handleReviewAction(p, action) ==
    /\ workflow[p] = "awaiting_review"
    /\ submittingAction # p
    /\ Len(pending[p]) < MaxPending
    /\ submittingAction' = p
    /\ pending' = [pending EXCEPT ![p] = Append(@, action)]
    /\ UNCHANGED <<engine_vars, wizard_vars, workflow, scheduleModalOpen,
                   selectedPlatform>>

\* request i of platform p resolves: the workflow is refreshed, an accept
\* opens the schedule dialog, finally submittingAction is reset
ReviewResolved(p, i) ==
    /\ i \in 1..Len(pending[p])
    /\ workflow' = [workflow EXCEPT ![p] = StatusShownAfter(pending[p][i])]
    /\ IF pending[p][i] = "accept"
       THEN selectedPlatform' = p /\ scheduleModalOpen' = TRUE
       ELSE UNCHANGED <<selectedPlatform, scheduleModalOpen>>
    /\ submittingAction' = Null
    /\ pending' = [pending EXCEPT ![p] = Without(@, i)]
    /\ UNCHANGED <<engine_vars, wizard_vars>>

\* request i of platform p is refused or fails: the catch block, finally
\* submittingAction is reset
ReviewRejected(p, i) ==
    /\ i \in 1..Len(pending[p])
    /\ submittingAction' = Null
    /\ pending' = [pending EXCEPT ![p] = Without(@, i)]
    /\ UNCHANGED <<engine_vars, wizard_vars, workflow, scheduleModalOpen,
                   selectedPlatform>>

\* handlePublishClick: the Publish button of an accepted platform
handlePublishClick(p) ==
    /\ workflow[p] = "accepted"
    /\ ~scheduleModalOpen
    /\ selectedPlatform' = p
    /\ scheduleModalOpen' = TRUE
    /\ UNCHANGED <<engine_vars, wizard_vars, workflow, submittingAction, pending>>

\* handleConfirmPublish, the request succeeding
handleConfirmPublish ==
    /\ scheduleModalOpen
    /\ selectedPlatform # Null
    /\ scheduleModalOpen' = FALSE
    /\ selectedPlatform' = Null
    /\ workflow' = [workflow EXCEPT ![selectedPlatform] = "published"]
    /\ UNCHANGED <<engine_vars, wizard_vars, submittingAction, pending>>

\* the Cancel button of the schedule dialog
CloseScheduleModal ==
    /\ scheduleModalOpen
    /\ scheduleModalOpen' = FALSE
    /\ UNCHANGED <<engine_vars, wizard_vars, workflow, submittingAction, pending,
                   selectedPlatform>>

NextWorkspace ==
    \/ fetchWorkflow
    \/ \E p \in Platforms, action \in ReviewActions : handleReviewAction(p, action)
    \/ \E p \in Platforms, i \in 1..MaxPending : ReviewResolved(p, i)
    \/ \E p \in Platforms, i \in 1..MaxPending : ReviewRejected(p, i)
    \/ \E p \in Platforms : handlePublishClick(p)
    \/ handleConfirmPublish
    \/ CloseScheduleModal

SpecWorkspace == InitPage /\ [][NextWorkspace]_vars

(* ------------------------------- C30 ----------------------------------- *)
\* C30: while a review action for a platform is in flight the four action
\* buttons of that platform stay disabled (submittingAction is that
\* platform) until the request settles, whatever is done for the other
\* platforms; so a platform never has a second action in flight.
C30_ButtonsDisabledWhileInFlight ==
    \A p \in Platforms :
        pending[p] # <<>> => (submittingAction = p /\ Len(pending[p]) = 1)

\* two review actions of one platform are in flight at once
C30_SecondActionInFlight ==
    \E p \in Platforms :
        /\ Len(pending[p]) = 2
        /\ workflow[p] = "awaiting_review"

====
